---------------------------- MODULE Spec2Model ----------------------------
(***************************************************************************)
(* The progress store of the shiny hunter (src/database.py) and the        *)
(* derivations its statistics page makes from it (src/app.py).             *)
(*                                                                         *)
(* The two SQLite tables are sets of rows.  A nullable column, a nullable  *)
(* argument and the result of an SQL aggregate hold NULL (the empty        *)
(* tuple) or Some(v) (the one-element tuple).  Timestamps are seconds on   *)
(* the wall clock `now'; time_spent_minutes counts half minutes, which     *)
(* REAL arithmetic adds exactly.                                           *)
(***************************************************************************)
EXTENDS Integers, Sequences, FiniteSets, TLC

VARIABLES
    caught_shinies,   \* table caught_shinies (database.py:18-28): a set of rows
    hunt_progress,    \* table hunt_progress (database.py:45-56): a set of rows
    sqlite_sequence,  \* AUTOINCREMENT bookkeeping: the largest rowid ever allocated, per table
    now,              \* the wall clock of datetime.now() and CURRENT_TIMESTAMP, in seconds
    txn,              \* per caller, the transaction its connection has open: the statement
                      \* has run, conn.commit() has not
    applied,          \* history: per (pokemon_id, method), the update_hunt_progress calls
                      \* that returned since the key's last reset_hunt, and their deltas summed
    pokemon_list      \* st.session_state.pokemon_list of one browser session (app.py:83-85):
                      \* NULL while the key is not in the session state

vars == <<caught_shinies, hunt_progress, sqlite_sequence, now, txn, applied, pokemon_list>>

-----------------------------------------------------------------------------
(* Bounds and input sets *)

\* ids allocated by AUTOINCREMENT, over both tables, in one run of the model
MaxRowIds == 2

\* the instants at which the clock is read: 0 and 1 lie in one minute, 60 in the next
Instants == {0, 1, 60}

SecondsPerMinute == 60

\* (pokemon_id, pokemon_name) as a caller passes them; 6 comes under two names
Pokemon == {<<6, "Charizard">>, <<6, "Mega Charizard">>, <<25, "Pikachu">>}

HUNT_METHODS == {"respawn", "fast_travel"}

\* (encounters, time_spent) as a caller passes them, time_spent in half minutes:
\* nothing to add, 10 and 5.0 min, 5 and 2.5 min, and negative numbers
HuntDeltas == {<<0, 0>>, <<10, 10>>, <<5, 5>>, <<-5, -5>>}

\* the keys of hunt_progress the callers above can name
HuntKeys == {p[1] : p \in Pokemon} \X HUNT_METHODS

NoCalls == [calls |-> 0, encounters |-> 0, time_spent |-> 0]

\* the sessions whose scripts call into database.py, each call on a connection of its own
Callers == {"session1", "session2"}

NoTxn == [open |-> FALSE]

-----------------------------------------------------------------------------
(* SQL values *)

NULL == <<>>

Some(v) == <<v>>

\* OrZero without the `or 0': the column as fetched
OrZeroMissing(x) == x

\* Python's `x or 0' on the column of a fetched row (None or a number)
OrZero(x) == IF x = NULL THEN Some(0) ELSE x

RECURSIVE SumOver(_, _)
\* SUM(column) over a set of (rowid, value) pairs
SumOver(pairs, acc) ==
    IF pairs = {} THEN acc
    ELSE LET p == CHOOSE q \in pairs : TRUE
         IN SumOver(pairs \ {p}, acc + p[2])

-----------------------------------------------------------------------------
(* Clock *)

\* CURRENT_TIMESTAMP: 'YYYY-MM-DD HH:MM:SS', one value per second
CURRENT_TIMESTAMP == now

\* datetime.now().strftime('%Y-%m-%d %H:%M'): the seconds are dropped
strftime(t) == t \div SecondsPerMinute

Tick ==
    /\ \E t \in Instants : t > now /\ now' = t
    /\ UNCHANGED <<caught_shinies, hunt_progress, sqlite_sequence, txn, applied, pokemon_list>>

-----------------------------------------------------------------------------
(* State after init_db on a fresh database file *)

Init ==
    /\ caught_shinies = {}
    /\ hunt_progress = {}
    /\ sqlite_sequence = [caught_shinies |-> 0, hunt_progress |-> 0]
    /\ now = 0
    /\ txn = [c \in Callers |-> NoTxn]
    /\ applied = [k \in HuntKeys |-> NoCalls]
    /\ pokemon_list = NULL

\* the model stops allocating rowids at MaxRowIds
CanAllocate == sqlite_sequence.caught_shinies + sqlite_sequence.hunt_progress < MaxRowIds

\* SQLite's write lock: cursor.execute of an INSERT or DELETE takes it and
\* conn.commit() releases it; while another connection holds it the statement
\* waits (and raises "database is locked", nothing done, when the wait times out)
WriteLockFree == \A c \in Callers : ~txn[c].open

-----------------------------------------------------------------------------
(* Hunt progress operations *)

\* the rows of `table' that UNIQUE(pokemon_id, method) sets against the new row
Conflict(table, pokemon_id, method) ==
    {r \in table : r.pokemon_id = pokemon_id /\ r.method = method}

\* Upsert with the counters set to the new values, not added to the old ones
UpsertOverwrite(table, pokemon_id, pokemon_name, method, encounters, time_spent, rowid, ts) ==
    LET hit == Conflict(table, pokemon_id, method)
    IN  (table \ hit) \cup
        {[id |-> IF hit = {} THEN rowid ELSE (CHOOSE r \in hit : TRUE).id,
          pokemon_id |-> pokemon_id,
          pokemon_name |-> pokemon_name,
          method |-> method,
          encounter_count |-> encounters,
          time_spent_minutes |-> time_spent,
          last_updated |-> ts]}

\* Upsert without UNIQUE(pokemon_id, method): a plain INSERT
UpsertInsertOnly(table, pokemon_id, pokemon_name, method, encounters, time_spent, rowid, ts) ==
    table \cup {[id |-> rowid,
                 pokemon_id |-> pokemon_id,
                 pokemon_name |-> pokemon_name,
                 method |-> method,
                 encounter_count |-> encounters,
                 time_spent_minutes |-> time_spent,
                 last_updated |-> ts]}

\* Upsert under UNIQUE(pokemon_id) and ON CONFLICT(pokemon_id): a row of the
\* same species conflicts whatever its method
UpsertAllMethods(table, pokemon_id, pokemon_name, method, encounters, time_spent, rowid, ts) ==
    LET hit == {r \in table : r.pokemon_id = pokemon_id}
    IN  IF hit = {}
        THEN table \cup {[id |-> rowid,
                          pokemon_id |-> pokemon_id,
                          pokemon_name |-> pokemon_name,
                          method |-> method,
                          encounter_count |-> encounters,
                          time_spent_minutes |-> time_spent,
                          last_updated |-> ts]}
        ELSE (table \ hit) \cup
             {[r EXCEPT !.encounter_count = @ + encounters,
                        !.time_spent_minutes = @ + time_spent,
                        !.last_updated = ts] : r \in hit}

\* INSERT INTO hunt_progress ... ON CONFLICT(pokemon_id, method) DO UPDATE SET ...
\* as one statement on `table', with the rowid the statement allocates and the
\* value of CURRENT_TIMESTAMP while it runs
Upsert(table, pokemon_id, pokemon_name, method, encounters, time_spent, rowid, ts) ==
    LET hit == Conflict(table, pokemon_id, method)
    IN  IF hit = {}
        THEN table \cup {[id |-> rowid,
                          pokemon_id |-> pokemon_id,
                          pokemon_name |-> pokemon_name,
                          method |-> method,
                          encounter_count |-> encounters,
                          time_spent_minutes |-> time_spent,
                          last_updated |-> ts]}
        ELSE (table \ hit) \cup
             {[r EXCEPT !.encounter_count = @ + encounters,
                        !.time_spent_minutes = @ + time_spent,
                        !.last_updated = ts] : r \in hit}

\* update_hunt_progress: the upsert, then commit, with no other caller's step
\* in between.  The statement allocates a rowid whether or not the key is
\* already present.
update_hunt_progress(pokemon_id, pokemon_name, method, encounters, time_spent) ==
    /\ WriteLockFree
    /\ CanAllocate
    /\ LET rowid == sqlite_sequence.hunt_progress + 1
       IN  /\ hunt_progress' = Upsert(hunt_progress, pokemon_id, pokemon_name, method,
                                      encounters, time_spent, rowid, CURRENT_TIMESTAMP)
           /\ sqlite_sequence' = [sqlite_sequence EXCEPT !.hunt_progress = rowid]
    /\ applied' = [applied EXCEPT ![<<pokemon_id, method>>] =
                        [calls |-> @.calls + 1,
                         encounters |-> @.encounters + encounters,
                         time_spent |-> @.time_spent + time_spent]]
    /\ UNCHANGED <<caught_shinies, now, txn, pokemon_list>>

\* DeleteHunt as a zeroing of the counters, the row kept
DeleteHuntZeroing(table, pokemon_id, method) ==
    {IF r.pokemon_id = pokemon_id /\ r.method = method
     THEN [r EXCEPT !.encounter_count = 0, !.time_spent_minutes = 0]
     ELSE r : r \in table}

\* DeleteHunt as UPDATE hunt_progress SET encounter_count = 0: the row and its
\* minutes are kept
DeleteHuntEncountersOnly(table, pokemon_id, method) ==
    {IF r.pokemon_id = pokemon_id /\ r.method = method
     THEN [r EXCEPT !.encounter_count = 0]
     ELSE r : r \in table}

\* DELETE FROM hunt_progress WHERE pokemon_id = ? AND method = ?
DeleteHunt(table, pokemon_id, method) ==
    table \ {r \in table : r.pokemon_id = pokemon_id /\ r.method = method}

reset_hunt(pokemon_id, method) ==
    /\ WriteLockFree
    /\ hunt_progress' = DeleteHunt(hunt_progress, pokemon_id, method)
    /\ applied' = [applied EXCEPT ![<<pokemon_id, method>>] = NoCalls]
    /\ UNCHANGED <<caught_shinies, sqlite_sequence, now, txn, pokemon_list>>

\* update_hunt_progress up to conn.commit(): cursor.execute has run the upsert
\* in a transaction of caller c's connection; the other connections still read
\* the tables as committed
execute_update(c, pokemon_id, pokemon_name, method, encounters, time_spent) ==
    /\ ~txn[c].open
    /\ WriteLockFree
    /\ CanAllocate
    /\ LET rowid == sqlite_sequence.hunt_progress + 1
       IN  txn' = [txn EXCEPT ![c] =
                     [open |-> TRUE,
                      hunt_progress |-> Upsert(hunt_progress, pokemon_id, pokemon_name, method,
                                               encounters, time_spent, rowid, CURRENT_TIMESTAMP),
                      sqlite_sequence |-> [sqlite_sequence EXCEPT !.hunt_progress = rowid],
                      key |-> <<pokemon_id, method>>,
                      call |-> [calls |-> 1, encounters |-> encounters, time_spent |-> time_spent]]]
    /\ UNCHANGED <<caught_shinies, hunt_progress, sqlite_sequence, now, applied, pokemon_list>>

\* conn.commit() of update_hunt_progress: the transaction's tables become the
\* committed ones and the call returns
commit_update(c) ==
    /\ txn[c].open
    /\ hunt_progress' = txn[c].hunt_progress
    /\ sqlite_sequence' = txn[c].sqlite_sequence
    /\ applied' = [applied EXCEPT ![txn[c].key] =
                        [calls |-> @.calls + txn[c].call.calls,
                         encounters |-> @.encounters + txn[c].call.encounters,
                         time_spent |-> @.time_spent + txn[c].call.time_spent]]
    /\ txn' = [txn EXCEPT ![c] = NoTxn]
    /\ UNCHANGED <<caught_shinies, now, pokemon_list>>

\* the orders in which SELECT ... ORDER BY column DESC may return `rows':
\* descending in the column, rows equal in it in an order SQL leaves open
OrderByDesc(rows, column) ==
    {s \in [1..Cardinality(rows) -> rows] :
        /\ \A i, j \in DOMAIN s : i # j => s[i] # s[j]
        /\ \A i, j \in DOMAIN s : i < j => s[i][column] >= s[j][column]}

\* SELECT * FROM hunt_progress ORDER BY last_updated DESC: the possible results
get_hunt_progress == OrderByDesc(hunt_progress, "last_updated")

\* get_hunt_stats with SUM(DISTINCT ...): equal counters of two rows are summed once
get_hunt_stats_distinct(table) ==
    [total_encounters |->
        IF table = {} THEN NULL
        ELSE Some(SumOver({<<r.encounter_count, r.encounter_count>> : r \in table}, 0)),
     total_time |->
        IF table = {} THEN NULL
        ELSE Some(SumOver({<<r.time_spent_minutes, r.time_spent_minutes>> : r \in table}, 0)),
     active_hunts |-> Some(Cardinality(table))]

\* SELECT SUM(encounter_count), SUM(time_spent_minutes), COUNT(*) FROM hunt_progress:
\* SUM over no rows is NULL, COUNT is never NULL
get_hunt_stats(table) ==
    [total_encounters |->
        IF table = {} THEN NULL
        ELSE Some(SumOver({<<r.id, r.encounter_count>> : r \in table}, 0)),
     total_time |->
        IF table = {} THEN NULL
        ELSE Some(SumOver({<<r.id, r.time_spent_minutes>> : r \in table}, 0)),
     active_hunts |-> Some(Cardinality(table))]

\* the totals as stats_page takes them from the row of get_hunt_stats
Totals(hunt_stats) ==
    [total_encounters |-> OrZero(hunt_stats.total_encounters),
     total_time |-> OrZero(hunt_stats.total_time),
     active_hunts |-> OrZero(hunt_stats.active_hunts)]

-----------------------------------------------------------------------------
(* Shinies operations *)

\* InsertShiny as INSERT OR REPLACE under a UNIQUE(pokemon_id): the row of the
\* same species is replaced
InsertShinyReplacing(table, pokemon_id, pokemon_name, hunt_method, notes, rowid, caught_date, ts) ==
    {r \in table : r.pokemon_id # pokemon_id} \cup
        {[id |-> rowid,
          pokemon_id |-> pokemon_id,
          pokemon_name |-> pokemon_name,
          caught_date |-> caught_date,
          hunt_method |-> hunt_method,
          notes |-> notes,
          created_at |-> ts]}

\* InsertShiny with id INTEGER PRIMARY KEY without AUTOINCREMENT: the new id is
\* one more than the largest id in the table
InsertShinyMaxRowid(table, pokemon_id, pokemon_name, hunt_method, notes, rowid, caught_date, ts) ==
    table \cup
        {[id |-> IF table = {} THEN 1
                 ELSE (CHOOSE r \in table : \A q \in table : q.id <= r.id).id + 1,
          pokemon_id |-> pokemon_id,
          pokemon_name |-> pokemon_name,
          caught_date |-> caught_date,
          hunt_method |-> hunt_method,
          notes |-> notes,
          created_at |-> ts]}

\* INSERT INTO caught_shinies (...) VALUES (?, ?, ?, ?, ?) as one statement on
\* `table'; created_at takes its default, CURRENT_TIMESTAMP
InsertShiny(table, pokemon_id, pokemon_name, hunt_method, notes, rowid, caught_date, ts) ==
    table \cup {[id |-> rowid,
                 pokemon_id |-> pokemon_id,
                 pokemon_name |-> pokemon_name,
                 caught_date |-> caught_date,
                 hunt_method |-> hunt_method,
                 notes |-> notes,
                 created_at |-> ts]}

\* add_shiny: pokemon_name is NULL or Some(text).  The column is NOT NULL, so
\* a NULL name raises IntegrityError before commit; any text, the empty one
\* included, is inserted.  Returns cursor.lastrowid.
add_shiny(pokemon_id, pokemon_name, hunt_method, notes) ==
    /\ WriteLockFree
    /\ CanAllocate
    /\ LET rowid == sqlite_sequence.caught_shinies + 1
       IN  IF pokemon_name = NULL
           THEN UNCHANGED <<caught_shinies, sqlite_sequence>>
           ELSE /\ caught_shinies' = InsertShiny(caught_shinies, pokemon_id, pokemon_name[1],
                                                 hunt_method, notes, rowid,
                                                 strftime(now), CURRENT_TIMESTAMP)
                /\ sqlite_sequence' = [sqlite_sequence EXCEPT !.caught_shinies = rowid]
    /\ UNCHANGED <<hunt_progress, now, txn, applied, pokemon_list>>

\* SELECT * FROM caught_shinies ORDER BY caught_date DESC: the possible results
get_all_shinies == OrderByDesc(caught_shinies, "caught_date")

\* SELECT COUNT(*) as count FROM caught_shinies
get_shiny_count == Cardinality(caught_shinies)

\* DeleteShiny with WHERE id <= ?
DeleteShinyUpTo(table, shiny_id) == table \ {r \in table : r.id <= shiny_id}

\* DELETE FROM caught_shinies WHERE id = ?
DeleteShiny(table, shiny_id) == table \ {r \in table : r.id = shiny_id}

delete_shiny(shiny_id) ==
    /\ WriteLockFree
    /\ caught_shinies' = DeleteShiny(caught_shinies, shiny_id)
    /\ UNCHANGED <<hunt_progress, sqlite_sequence, now, txn, applied, pokemon_list>>

-----------------------------------------------------------------------------
(* The writes in their two steps, and the failure of the storage between them *)

\* reset_hunt up to conn.commit(): the DELETE has run in a transaction of caller c
execute_reset(c, pokemon_id, method) ==
    /\ ~txn[c].open
    /\ WriteLockFree
    /\ txn' = [txn EXCEPT ![c] =
                  [open |-> TRUE,
                   hunt_progress |-> DeleteHunt(hunt_progress, pokemon_id, method),
                   reset |-> <<pokemon_id, method>>]]
    /\ UNCHANGED <<caught_shinies, hunt_progress, sqlite_sequence, now, applied, pokemon_list>>

\* conn.commit() of reset_hunt
commit_reset(c) ==
    /\ txn[c].open
    /\ "reset" \in DOMAIN txn[c]
    /\ hunt_progress' = txn[c].hunt_progress
    /\ applied' = [applied EXCEPT ![txn[c].reset] = NoCalls]
    /\ txn' = [txn EXCEPT ![c] = NoTxn]
    /\ UNCHANGED <<caught_shinies, sqlite_sequence, now, pokemon_list>>

\* add_shiny up to conn.commit(): the INSERT has run in a transaction of
\* caller c.  A NULL name fails the statement and nothing is left open.
execute_add_shiny(c, pokemon_id, pokemon_name, hunt_method, notes) ==
    /\ ~txn[c].open
    /\ WriteLockFree
    /\ CanAllocate
    /\ LET rowid == sqlite_sequence.caught_shinies + 1
       IN  IF pokemon_name = NULL
           THEN UNCHANGED txn
           ELSE txn' = [txn EXCEPT ![c] =
                          [open |-> TRUE,
                           caught_shinies |-> InsertShiny(caught_shinies, pokemon_id,
                                                          pokemon_name[1], hunt_method, notes,
                                                          rowid, strftime(now), CURRENT_TIMESTAMP),
                           sqlite_sequence |-> [sqlite_sequence EXCEPT !.caught_shinies = rowid]]]
    /\ UNCHANGED <<caught_shinies, hunt_progress, sqlite_sequence, now, applied, pokemon_list>>

\* delete_shiny up to conn.commit(): the DELETE has run in a transaction of caller c
execute_delete_shiny(c, shiny_id) ==
    /\ ~txn[c].open
    /\ WriteLockFree
    /\ txn' = [txn EXCEPT ![c] =
                  [open |-> TRUE,
                   caught_shinies |-> DeleteShiny(caught_shinies, shiny_id),
                   sqlite_sequence |-> sqlite_sequence]]
    /\ UNCHANGED <<caught_shinies, hunt_progress, sqlite_sequence, now, applied, pokemon_list>>

\* conn.commit() of add_shiny and of delete_shiny
commit_shiny(c) ==
    /\ txn[c].open
    /\ "caught_shinies" \in DOMAIN txn[c]
    /\ caught_shinies' = txn[c].caught_shinies
    /\ sqlite_sequence' = txn[c].sqlite_sequence
    /\ txn' = [txn EXCEPT ![c] = NoTxn]
    /\ UNCHANGED <<hunt_progress, now, applied, pokemon_list>>

\* the caller's call ended in an exception
Raised == [open |-> FALSE, raised |-> "sqlite3.OperationalError"]

\* Rollback with the rows the statement wrote left in the table
RollbackKeepingWrites(committed, image) == committed \cup image

\* what conn.close() without commit leaves of a table: the rows as committed,
\* whatever the open transaction made of them
Rollback(committed, image) == committed

\* the rows of `table' as caller c's open transaction has them
ImageOf(c, table, committed) ==
    IF table \in DOMAIN txn[c] THEN txn[c][table] ELSE committed

\* The storage fails after the statement has run (conn.commit() raises, disk
\* I/O error): the exception leaves the `with get_db()' block through its
\* `finally: conn.close()', the open transaction is rolled back, and the
\* exception goes on to the caller, no except clause being in its way
close_without_commit(c) ==
    /\ txn[c].open
    /\ caught_shinies' = Rollback(caught_shinies, ImageOf(c, "caught_shinies", caught_shinies))
    /\ hunt_progress' = Rollback(hunt_progress, ImageOf(c, "hunt_progress", hunt_progress))
    /\ txn' = [txn EXCEPT ![c] = Raised]
    /\ UNCHANGED <<sqlite_sequence, now, applied, pokemon_list>>

-----------------------------------------------------------------------------
(* Derivations of stats_page *)

\* Python's `shiny['hunt_method'] or 'Unknown'': None and the empty text give 'Unknown'
OrUnknown(hunt_method) ==
    IF hunt_method = NULL \/ hunt_method = Some("") THEN "Unknown" ELSE hunt_method[1]

RECURSIVE CountItems(_)
\* the loop `counts[method] = counts.get(method, 0) + 1' over `methods', then
\* list(counts.items()): a dict keeps its keys in the order of their first insertion
CountItems(methods) ==
    IF methods = <<>> THEN <<>>
    ELSE LET items == CountItems(SubSeq(methods, 1, Len(methods) - 1))
             method == methods[Len(methods)]
         IN  IF \E i \in DOMAIN items : items[i][1] = method
             THEN [i \in DOMAIN items |->
                     IF items[i][1] = method THEN <<method, items[i][2] + 1>> ELSE items[i]]
             ELSE Append(items, <<method, 1>>)

\* DataFrame.sort_values('Count', ascending=False) on the (Method, Count) items:
\* the default sort (kind='quicksort') is not stable, so items of equal Count
\* come in an order the build decides
sort_values(items) ==
    {s \in [DOMAIN items -> {items[i] : i \in DOMAIN items}] :
        /\ \A i, j \in DOMAIN s : i # j => s[i] # s[j]
        /\ \A i, j \in DOMAIN s : i < j => s[i][2] >= s[j][2]}

\* method_df of stats_page, "Shinies by Hunt Method", for a result `shinies' of
\* get_all_shinies: the possible frames
method_df(shinies) ==
    sort_values(CountItems([i \in DOMAIN shinies |-> OrUnknown(shinies[i].hunt_method)]))

\* method_dist_df of stats_page, "Active Hunts by Method", for a result `hunts'
\* of get_hunt_progress: the possible frames
method_dist_df(hunts) ==
    sort_values(CountItems([i \in DOMAIN hunts |-> hunts[i].method]))

RECURSIVE GCD(_, _)
GCD(a, b) == IF b = 0 THEN a ELSE GCD(b, a % b)

\* Python's a / b for b > 0, kept exact: the fraction in lowest terms
TrueDiv(a, b) ==
    LET g == GCD(IF a < 0 THEN -a ELSE a, b)
    IN  <<a \div g, b \div g>>

\* "Average Encounters per Shiny" of stats_page: the metric is computed and
\* shown under `if total_encounters > 0 and shiny_count > 0', otherwise not at all
odds(total_encounters, shiny_count) ==
    IF total_encounters > 0 /\ shiny_count > 0
    THEN Some(TrueDiv(total_encounters, shiny_count))
    ELSE NULL

-----------------------------------------------------------------------------
(* The species catalog and the forms of the pages that write to the store *)

\* what the request of get_za_pokemon runs into: a listing of the species, a
\* requests.exceptions.RequestException (no connection, timeout, HTTP error
\* status), a body that is not JSON, or JSON without the 'results' listing
Responses == {"ok", "RequestException", "not JSON", "unexpected JSON"}

\* the species in an "ok" listing that pass the Z-A filter, as (id, name)
Roster == << <<6, "Charizard">>, <<25, "Pikachu">> >>

\* get_za_pokemon.  A RequestException is caught and [] returned; so is the
\* requests.exceptions.JSONDecodeError of response.json() on a body that is
\* not JSON, a RequestException too.  data['results'] on JSON of another shape
\* raises KeyError, which the except clause lets through.
get_za_pokemon(response) ==
    CASE response = "ok" -> [returns |-> Roster]
      [] response = "RequestException" -> [returns |-> <<>>]
      [] response = "not JSON" -> [returns |-> <<>>]
      [] response = "unexpected JSON" -> [raises |-> "KeyError"]

\* the top of the script: `if 'pokemon_list' not in st.session_state' stores
\* the result of get_za_pokemon; an exception ends the run with the key unset
load_pokemon_list(response) ==
    /\ pokemon_list = NULL
    /\ LET outcome == get_za_pokemon(response)
       IN  pokemon_list' = IF "returns" \in DOMAIN outcome THEN Some(outcome.returns) ELSE NULL
    /\ UNCHANGED <<caught_shinies, hunt_progress, sqlite_sequence, now, txn, applied>>

\* a browser session of its own starts with an empty st.session_state
new_session ==
    /\ pokemon_list # NULL
    /\ pokemon_list' = NULL
    /\ UNCHANGED <<caught_shinies, hunt_progress, sqlite_sequence, now, txn, applied>>

\* st.selectbox("Select Pokemon", names): one of the names, None when there is none
selectbox(names) == IF names = {} THEN {NULL} ELSE {Some(n) : n \in names}

\* next((p for p in st.session_state.pokemon_list if p['name'] == name), None)
selected_pokemon(name) ==
    LET list == pokemon_list[1]
        hits == {i \in DOMAIN list : Some(list[i][2]) = name}
    IN  IF hits = {} THEN NULL
        ELSE Some(list[CHOOSE i \in hits : \A j \in hits : i <= j])

\* "Start/Update Hunt" of hunt_tracker_page: nothing is done when no species is selected
start_hunt_button(selected_pokemon_name, hunt_method, encounters) ==
    /\ pokemon_list # NULL
    /\ selected_pokemon_name \in selectbox({pokemon_list[1][i][2] : i \in DOMAIN pokemon_list[1]})
    /\ LET selected == selected_pokemon(selected_pokemon_name)
       IN  IF selected # NULL
           THEN update_hunt_progress(selected[1][1], selected[1][2], hunt_method, encounters, 0)
           ELSE UNCHANGED vars

\* "Add Encounters" of hunt_tracker_page, on a hunt of the listing
add_encounters_button(hunt, new_encounters) ==
    /\ pokemon_list # NULL
    /\ hunt \in hunt_progress
    /\ update_hunt_progress(hunt.pokemon_id, hunt.pokemon_name, hunt.method, new_encounters, 0)

\* "Reset Selected Hunt" of hunt_tracker_page
reset_button(hunt) ==
    /\ pokemon_list # NULL
    /\ hunt \in hunt_progress
    /\ reset_hunt(hunt.pokemon_id, hunt.method)

\* "Record Shiny!" of my_shinies_page: nothing is done when no species is
\* selected; the method "Unknown" is passed as None
record_shiny_button(selected_pokemon_name, hunt_method, notes) ==
    /\ pokemon_list # NULL
    /\ selected_pokemon_name \in selectbox({pokemon_list[1][i][2] : i \in DOMAIN pokemon_list[1]})
    /\ LET selected == selected_pokemon(selected_pokemon_name)
       IN  IF selected # NULL
           THEN add_shiny(selected[1][1], Some(selected[1][2]),
                          IF hunt_method # "Unknown" THEN Some(hunt_method) ELSE NULL,
                          notes)
           ELSE UNCHANGED vars

\* "Delete" under a shiny of the gallery of my_shinies_page
delete_button(shiny) ==
    /\ pokemon_list # NULL
    /\ shiny \in caught_shinies
    /\ delete_shiny(shiny.id)

-----------------------------------------------------------------------------
(* Specification *)

\* (pokemon_id, pokemon_name) as add_shiny may be given them
ShinyPokemon ==
    {<<6, Some("Charizard")>>, <<25, Some("Pikachu")>>, <<6, Some("")>>, <<6, NULL>>}

ShinyMethods == {NULL} \cup {Some(m) : m \in HUNT_METHODS}

Notes == {NULL, Some("found in Lumiose")}

\* ids a caller may pass to delete_shiny: every id the model allocates, and one past them
ShinyIds == 1..(MaxRowIds + 1)

HuntWrites ==
    \/ \E p \in Pokemon, m \in HUNT_METHODS, d \in HuntDeltas :
          update_hunt_progress(p[1], p[2], m, d[1], d[2])
    \/ \E p \in Pokemon, m \in HUNT_METHODS : reset_hunt(p[1], m)

ShinyWrites ==
    \/ \E p \in ShinyPokemon, m \in ShinyMethods, n \in Notes : add_shiny(p[1], p[2], m, n)
    \/ \E i \in ShinyIds : delete_shiny(i)

Next ==
    \/ Tick
    \/ HuntWrites
    \/ ShinyWrites

Spec == Init /\ [][Next]_vars

\* The hunt operations with update_hunt_progress in its two steps, taken by
\* callers whose calls overlap
NextConcurrent ==
    \/ Tick
    \/ \E c \in Callers, p \in Pokemon, m \in HUNT_METHODS, d \in HuntDeltas :
          execute_update(c, p[1], p[2], m, d[1], d[2])
    \/ \E c \in Callers : commit_update(c)
    \/ \E p \in Pokemon, m \in HUNT_METHODS : reset_hunt(p[1], m)

SpecConcurrent == Init /\ [][NextConcurrent]_vars

\* the names a form can be handed: those of the roster, and none
RosterNames == {Some(Roster[i][2]) : i \in DOMAIN Roster} \cup {NULL}

\* st.number_input("Starting Encounters", min_value=0): its default and a count
StartingEncounters == {0, 10}

\* st.number_input("Add Encounters", min_value=1): its default and a count
AddEncounters == {1, 5}

\* st.text_input("Notes (optional)"): left empty, or filled in
NotesTyped == {Some(""), Some("found in Lumiose")}

\* The store as the pages of one session write to it, with the roster the
\* session got from the catalog
NextCatalog ==
    \/ Tick
    \/ \E response \in Responses : load_pokemon_list(response)
    \/ new_session
    \/ \E n \in RosterNames, m \in HUNT_METHODS, e \in StartingEncounters :
          start_hunt_button(n, m, e)
    \/ \E hunt \in hunt_progress, e \in AddEncounters : add_encounters_button(hunt, e)
    \/ \E hunt \in hunt_progress : reset_button(hunt)
    \/ \E n \in RosterNames, m \in {"Unknown"} \cup HUNT_METHODS, t \in NotesTyped :
          record_shiny_button(n, m, t)
    \/ \E shiny \in caught_shinies : delete_button(shiny)

SpecCatalog == Init /\ [][NextCatalog]_vars

\* the calls made while the storage may fail
StoragePokemon == {<<6, "Charizard">>, <<25, "Pikachu">>}

StorageDeltas == {<<10, 10>>, <<5, 5>>}

StorageMethods == {NULL, Some("respawn")}

\* The four writes in their two steps, any of which the storage may fail
NextStorage ==
    \/ Tick
    \/ \E c \in Callers, p \in StoragePokemon, d \in StorageDeltas :
          execute_update(c, p[1], p[2], "respawn", d[1], d[2])
    \/ \E c \in Callers : "call" \in DOMAIN txn[c] /\ commit_update(c)
    \/ \E c \in Callers, p \in StoragePokemon : execute_reset(c, p[1], "respawn")
    \/ \E c \in Callers : commit_reset(c)
    \/ \E c \in Callers, p \in StoragePokemon, m \in StorageMethods :
          execute_add_shiny(c, p[1], Some(p[2]), m, NULL)
    \/ \E c \in Callers, i \in ShinyIds : execute_delete_shiny(c, i)
    \/ \E c \in Callers : commit_shiny(c)
    \/ \E c \in Callers : close_without_commit(c)

SpecStorage == Init /\ [][NextStorage]_vars

-----------------------------------------------------------------------------
(* Properties *)

RowsOf(k) == Conflict(hunt_progress, k[1], k[2])

\* C1: for every key, the stored row holds the sum of the encounter deltas and
\* the sum of the time deltas of the update_hunt_progress calls made on the key
\* since its last reset_hunt, in whatever order the calls were applied
C1_CountersAreDeltaSums ==
    \A k \in HuntKeys :
        applied[k].calls > 0 =>
            /\ RowsOf(k) # {}
            /\ \A r \in RowsOf(k) :
                  /\ r.encounter_count = applied[k].encounters
                  /\ r.time_spent_minutes = applied[k].time_spent

\* two calls on one key, 10 encounters in 5.0 min then 5 in 2.5 min: 15 and 7.5 min
C1_Witness ==
    \E k \in HuntKeys :
        /\ applied[k].calls = 2
        /\ \E r \in RowsOf(k) : r.encounter_count = 15 /\ r.time_spent_minutes = 15

\* C2: at most one hunt_progress row exists for each (pokemon_id, method)
C2_OneRowPerKey ==
    \A r1, r2 \in hunt_progress :
        (r1.pokemon_id = r2.pokemon_id /\ r1.method = r2.method) => r1 = r2

\* a key updated twice holds one row
C2_Witness ==
    \E k \in HuntKeys : applied[k].calls = 2 /\ Cardinality(RowsOf(k)) = 1

\* C3: an update_hunt_progress call on an existing row, zero deltas included,
\* sets the row's last_updated to the time of the call and its pokemon_name to
\* the name passed in the call
C3_UpdateRefreshesTimeAndName ==
    [][\A p \in Pokemon, m \in HUNT_METHODS, d \in HuntDeltas :
          (/\ Conflict(hunt_progress, p[1], m) # {}
           /\ update_hunt_progress(p[1], p[2], m, d[1], d[2]))
          => \A r \in Conflict(hunt_progress', p[1], m) :
                /\ r.last_updated = now
                /\ r.pokemon_name = p[2]]_vars

\* C4: from reset_hunt of a key until the next update_hunt_progress of it, no
\* listing of the hunts holds a row of the key; reset_hunt can always be called,
\* and called again it leaves both tables as they are
C4_ResetRemovesRow ==
    /\ [](\A k \in HuntKeys :
            /\ applied[k].calls = 0 =>
                  \A s \in get_hunt_progress : \A i \in DOMAIN s :
                      <<s[i].pokemon_id, s[i].method>> # k
            /\ ENABLED reset_hunt(k[1], k[2]))
    /\ [][\A k \in HuntKeys :
            (applied[k].calls = 0 /\ reset_hunt(k[1], k[2]))
            => UNCHANGED <<hunt_progress, caught_shinies, sqlite_sequence>>]_vars

\* every hunt that was started has been reset
C4_Witness == sqlite_sequence.hunt_progress >= 1 /\ hunt_progress = {}

\* C5: delete_shiny of an id no row has leaves both tables as they are;
\* delete_shiny of an id a row has removes that one row and no other, and
\* leaves hunt_progress as it is
C5_DeleteShinyExact ==
    [][\A i \in ShinyIds :
          delete_shiny(i) =>
              /\ hunt_progress' = hunt_progress
              /\ caught_shinies' \subseteq caught_shinies
              /\ \A r \in caught_shinies' : r.id # i
              /\ Cardinality(caught_shinies') =
                    IF \E r \in caught_shinies : r.id = i
                    THEN Cardinality(caught_shinies) - 1
                    ELSE Cardinality(caught_shinies)]_vars

\* of two shinies recorded, one was deleted and the other is still there
C5_Witness ==
    /\ sqlite_sequence.caught_shinies = 2
    /\ Cardinality(caught_shinies) = 1

\* C6: add_shiny with an empty or a missing pokemon_name changes neither table
C6_EmptyNameRejected ==
    [][\A p \in ShinyPokemon, m \in ShinyMethods, n \in Notes :
          (p[2] \in {NULL, Some("")} /\ add_shiny(p[1], p[2], m, n))
          => UNCHANGED <<caught_shinies, hunt_progress, sqlite_sequence>>]_vars

ZeroTotals == [total_encounters |-> Some(0), total_time |-> Some(0), active_hunts |-> Some(0)]

RECURSIVE SumApplied(_, _)
\* the deltas of the calls made since each key's last reset, summed over `keys'
SumApplied(keys, field) ==
    IF keys = {} THEN 0
    ELSE LET k == CHOOSE q \in keys : TRUE
         IN applied[k][field] + SumApplied(keys \ {k}, field)

C9_NewShinyListedFirst ==
    [][\A p \in ShinyPokemon, m \in ShinyMethods, n \in Notes :
          (p[2] # NULL /\ add_shiny(p[1], p[2], m, n))
          => \A s \in get_all_shinies' : s[1].id = sqlite_sequence'.caught_shinies]_vars

\* C10: no row has a negative encounter_count or time_spent_minutes, and a
\* row's counters never decrease while the row is there
C10_CountersNonNegativeMonotone ==
    /\ [](\A r \in hunt_progress : r.encounter_count >= 0 /\ r.time_spent_minutes >= 0)
    /\ [][\A r \in hunt_progress : \A q \in hunt_progress' :
            (q.pokemon_id = r.pokemon_id /\ q.method = r.method)
            => /\ q.encounter_count >= r.encounter_count
               /\ q.time_spent_minutes >= r.time_spent_minutes]_vars

\* the method labels in ascending lexical order, as Python compares text (by
\* code point: 'U' is 85, 'f' 102, 'r' 114)
LexicalOrder == <<"Unknown", "fast_travel", "respawn">>

LabelRank(label) == CHOOSE i \in DOMAIN LexicalOrder : LexicalOrder[i] = label

\* the frames stats_page may chart for the shinies now in the table
ShiniesByMethod == UNION {method_df(s) : s \in get_all_shinies}

\* C11: the shinies-by-method frame has one item per method label (no method
\* under "Unknown") with the number of shinies of that label, ordered by count
\* descending and, among equal counts, by label in ascending lexical order;
\* so the shinies in the table admit one frame only, whatever the order in
\* which they were recorded
C11_ByMethodOrderedByCountThenLabel ==
    LET labels == {OrUnknown(r.hunt_method) : r \in caught_shinies}
    IN  /\ Cardinality(ShiniesByMethod) = 1
        /\ \A s \in ShiniesByMethod :
              /\ {s[i][1] : i \in DOMAIN s} = labels
              /\ Len(s) = Cardinality(labels)
              /\ \A i \in DOMAIN s :
                    s[i][2] = Cardinality({r \in caught_shinies :
                                              OrUnknown(r.hunt_method) = s[i][1]})
              /\ \A i, j \in DOMAIN s :
                    i < j => \/ s[i][2] > s[j][2]
                             \/ /\ s[i][2] = s[j][2]
                                /\ LabelRank(s[i][1]) < LabelRank(s[j][1])

\* C12: with exactly two shinies, one of method "respawn" and one of no method,
\* the frame is (("respawn", 1), ("Unknown", 1)) in that order, and that is the
\* order ascending by label
C12_RespawnBeforeUnknown ==
    (/\ Cardinality(caught_shinies) = 2
     /\ {r.hunt_method : r \in caught_shinies} = {Some("respawn"), NULL})
    => /\ ShiniesByMethod = {<< <<"respawn", 1>>, <<"Unknown", 1>> >>}
       /\ LabelRank("respawn") < LabelRank("Unknown")

\* C13: the average encounters per shiny is total_encounters / shiny_count
\* whenever a shiny is recorded, which is 0 when no encounter is, and is not
\* computed when no shiny is recorded
C13_AverageDefinedIffShinies ==
    LET total_encounters == Totals(get_hunt_stats(hunt_progress)).total_encounters[1]
    IN  odds(total_encounters, get_shiny_count) =
            IF get_shiny_count > 0
            THEN Some(TrueDiv(total_encounters, get_shiny_count))
            ELSE NULL

\* C14: an add_shiny that inserts adds exactly one caught_shinies row, which
\* holds the arguments of the call; get_shiny_count grows by exactly 1, the
\* rows there before stay as they were, and hunt_progress stays as it was
C14_AddShinyAppendsOneRow ==
    [][\A p \in ShinyPokemon, m \in ShinyMethods, n \in Notes :
          (p[2] # NULL /\ add_shiny(p[1], p[2], m, n))
          => /\ hunt_progress' = hunt_progress
             /\ caught_shinies \subseteq caught_shinies'
             /\ Cardinality(caught_shinies' \ caught_shinies) = 1
             /\ get_shiny_count' = get_shiny_count + 1
             /\ \A r \in caught_shinies' \ caught_shinies :
                   /\ r.pokemon_id = p[1]
                   /\ r.pokemon_name = p[2][1]
                   /\ r.hunt_method = m
                   /\ r.notes = n]_vars

\* a hunt of Charizard by respawn is under way and add_shiny(6, "Charizard",
\* "respawn", "found in Lumiose") has made the count 1 and the frame (("respawn", 1))
C14_Witness ==
    /\ Conflict(hunt_progress, 6, "respawn") # {}
    /\ get_shiny_count = 1
    /\ \E r \in caught_shinies :
          /\ r.pokemon_id = 6 /\ r.pokemon_name = "Charizard"
          /\ r.hunt_method = Some("respawn") /\ r.notes = Some("found in Lumiose")
    /\ ShiniesByMethod = {<< <<"respawn", 1>> >>}

\* C15: the id add_shiny gives a new row is larger than every id given before
\* (sqlite_sequence holds the largest, the ids of deleted rows included), no
\* two rows share an id, and a row stays as it is in every column until a
\* delete removes it
C15_ShinyIdsFreshRowsImmutable ==
    /\ [](/\ \A r \in caught_shinies : r.id <= sqlite_sequence.caught_shinies
          /\ \A r1, r2 \in caught_shinies : r1.id = r2.id => r1 = r2)
    /\ [][/\ \A r \in caught_shinies' \ caught_shinies :
                r.id > sqlite_sequence.caught_shinies
          /\ sqlite_sequence'.caught_shinies >= sqlite_sequence.caught_shinies
          /\ \A r \in caught_shinies :
                r \in caught_shinies' \/ \A q \in caught_shinies' : q.id # r.id]_vars

\* the shiny of id 1 was deleted and the only shiny there has id 2
C15_Witness ==
    /\ sqlite_sequence.caught_shinies = 2
    /\ {r.id : r \in caught_shinies} = {2}

\* the roster the session holds came from a lookup that failed
CatalogUnavailable == pokemon_list = Some(<<>>)

\* C16: a lookup of the catalog that fails (request error, or a body that
\* cannot be parsed) leaves the session with an empty roster; and while the
\* session holds the roster of a failed lookup, a record-shiny request and an
\* update-hunt request can still be made and are applied to the store
C16_CatalogFailureDoesNotBlockWrites ==
    /\ [][\A response \in Responses \ {"ok"} :
            load_pokemon_list(response) => pokemon_list' = Some(<<>>)]_vars
    /\ []((CatalogUnavailable /\ CanAllocate /\ WriteLockFree) =>
            /\ ENABLED (\E n \in RosterNames, m \in {"Unknown"} \cup HUNT_METHODS,
                           t \in NotesTyped :
                           /\ record_shiny_button(n, m, t)
                           /\ caught_shinies' # caught_shinies)
            /\ ENABLED (\E n \in RosterNames, m \in HUNT_METHODS, e \in StartingEncounters :
                           /\ start_hunt_button(n, m, e)
                           /\ hunt_progress' # hunt_progress))

\* the store as committed, and as it is once caller c's open transaction is
\* committed whole
Store == <<caught_shinies, hunt_progress, sqlite_sequence>>

StoreWith(c) ==
    <<ImageOf(c, "caught_shinies", caught_shinies),
      ImageOf(c, "hunt_progress", hunt_progress),
      ImageOf(c, "sqlite_sequence", sqlite_sequence)>>

\* C17: a write that the storage fails ends in an exception at its caller and
\* leaves the store as it was before the call; and from the moment a write's
\* statement has run until the call ends, the store is either still as it
\* was before the call or as the write applied whole makes it, which is so
\* only when the call returned
C17_FailedWriteLeavesNoPartialEffect ==
    [][\A c \in Callers :
          txn[c].open =>
              /\ close_without_commit(c) => (Store' = Store /\ txn'[c] = Raised)
              /\ \/ Store' = Store
                 \/ Store' = StoreWith(c) /\ txn'[c] = NoTxn]_vars

\* a call ended in an exception while a hunt row and a shiny are in the store
C17_Witness ==
    /\ \E c \in Callers : txn[c] = Raised
    /\ hunt_progress # {}
    /\ caught_shinies # {}

\* C19: from reset_hunt of a key until its next update_hunt_progress the key
\* has no row and is not among the active hunts counted; that update creates
\* a row of its own, under a new id, holding the name, the encounters and the
\* minutes of that one call, and nothing of the row that was reset
C19_UpdateAfterResetStartsAfresh ==
    /\ [](/\ \A k \in HuntKeys : applied[k].calls = 0 => RowsOf(k) = {}
          /\ get_hunt_stats(hunt_progress).active_hunts =
                Some(Cardinality({k \in HuntKeys : applied[k].calls > 0})))
    /\ [][\A p \in Pokemon, m \in HUNT_METHODS, d \in HuntDeltas :
            (/\ applied[<<p[1], m>>].calls = 0
             /\ update_hunt_progress(p[1], p[2], m, d[1], d[2]))
            => /\ Cardinality(Conflict(hunt_progress', p[1], m)) = 1
               /\ \A r \in Conflict(hunt_progress', p[1], m) :
                     /\ r.pokemon_name = p[2]
                     /\ r.encounter_count = d[1]
                     /\ r.time_spent_minutes = d[2]
                     /\ r.id > sqlite_sequence.hunt_progress
                     /\ r.last_updated = now]_vars

\* the hunt of id 1 was reset and the one hunt there, updated once since,
\* holds 5 encounters and 2.5 minutes under id 2
C19_Witness ==
    /\ sqlite_sequence.hunt_progress = 2
    /\ \E k \in HuntKeys :
          /\ applied[k].calls = 1
          /\ hunt_progress = RowsOf(k)
          /\ \E r \in RowsOf(k) :
                r.id = 2 /\ r.encounter_count = 5 /\ r.time_spent_minutes = 5

\* C20: every result of get_hunt_progress holds each row of the table exactly
\* once, in descending order of last_updated, and right after an
\* update_hunt_progress call the row of the call's key is its first element
C20_LastUpdatedHuntListedFirst ==
    /\ [](\A s \in get_hunt_progress :
            /\ {s[i] : i \in DOMAIN s} = hunt_progress
            /\ Len(s) = Cardinality(hunt_progress)
            /\ \A i, j \in DOMAIN s : i < j => s[i].last_updated >= s[j].last_updated)
    /\ [][\A p \in Pokemon, m \in HUNT_METHODS, d \in HuntDeltas :
            update_hunt_progress(p[1], p[2], m, d[1], d[2])
            => \A s \in get_hunt_progress' :
                  s[1].pokemon_id = p[1] /\ s[1].method = m]_vars

\* the rows of `table' under another key than (pokemon_id, method)
OtherRows(table, pokemon_id, method) == table \ Conflict(table, pokemon_id, method)

=============================================================================
